---- MODULE Spec2Model ----
(***************************************************************************)
(* A model of the Subformer Python SDK (src/src/subformer): the error      *)
(* taxonomy of exceptions.py, the request dispatcher _request and          *)
(* _handle_error of client.py, the facade methods built on it, the polling *)
(* loop wait_for_job and the life cycle of the HTTP connection pool.       *)
(*                                                                         *)
(* Python values are represented by strings and by records of a fixed      *)
(* shape; None is the string "None", a key missing from a JSON object is   *)
(* Absent.                                                                 *)
(***************************************************************************)
EXTENDS Integers, Sequences, FiniteSets, TLC

\* ------------------------------------------------------------------ bounds
MaxPolls == 3          \* polls one wait_for_job call may make in the model
MaxDur == 1            \* longest duration of one HTTP exchange, in time units
MaxTimeout == 2        \* largest timeout argument of wait_for_job
MaxPollInterval == 2   \* largest poll_interval argument of wait_for_job
MaxCloseCalls == 2     \* invocations of _client.close() the model follows

\* ------------------------------------------------------------ Python values
None == "None"
Absent == "<absent>"

\* timeout: Optional[float] = None; the absent timeout is kept apart from
\* every number a caller can pass.
NoTimeout == 0 - 1

Timeouts == {NoTimeout} \cup (0..MaxTimeout)
PollIntervals == 0..MaxPollInterval

\* ------------------------------------------------------------ HTTP responses
Statuses == {200, 204, 302, 400, 401, 404, 429, 500}

JobStates == {"queued", "active", "completed", "failed", "cancelled"}

\* A response body: its kind (what response.json() makes of the text) and,
\* for a JSON object, the value of each key the client reads.
Body(kind, message, code, data, success, state) ==
    [kind |-> kind, message |-> message, code |-> code, data |-> data,
     success |-> success, state |-> state, job |-> Absent, gender |-> Absent]

PlainBody(kind) == Body(kind, Absent, Absent, Absent, Absent, Absent)

NoBody == PlainBody("<none>")

\* empty: no content; nonjson: text that is not JSON; array, null, string:
\* JSON documents that are not objects.
NonObjectKinds == {"empty", "nonjson", "array", "null", "string"}

\* error envelopes {message, code?, data?}, every key optional
ErrorBodies ==
    {Body("object", m, c, d, Absent, Absent) :
        m \in {Absent, "bad request"}, c \in {Absent, "E_SERVER"},
        d \in {Absent, "detail"}}

\* {success: bool} of the delete endpoints
SuccessBodies ==
    {Body("object", Absent, Absent, Absent, s, Absent) : s \in {"True", "False"}}

\* a Job resource, reduced to the field the client reads
JobBodies ==
    {Body("object", Absent, Absent, Absent, Absent, s) : s \in JobStates}

\* {job: {...}} of the job-creating endpoints; the nested Job is reduced to
\* its state
JobEnvelopeBodies ==
    {[PlainBody("object") EXCEPT !.job = s] : s \in JobStates}

\* a Voice resource, reduced to its gender: Literal["male", "female"]
VoiceBodies ==
    {[PlainBody("object") EXCEPT !.gender = g] : g \in {"male", "female", "robot"}}

Bodies ==
    {PlainBody(k) : k \in NonObjectKinds} \cup ErrorBodies \cup SuccessBodies
        \cup JobBodies \cup JobEnvelopeBodies \cup VoiceBodies

Responses == [status_code : Statuses, body : Bodies]

NoResponse == [status_code |-> 0, body |-> NoBody]

\* response.text: the raw text of the body
TextOf(response) ==
    CASE response.body.kind = "empty" -> ""
      [] response.body.kind = "nonjson" -> "Bad Gateway"
      [] response.body.kind = "array" -> "[]"
      [] response.body.kind = "null" -> "null"
      [] response.body.kind = "string" -> "\"oops\""
      [] OTHER -> "{...}"

\* response.json(): raises on text that is not JSON, returns the document
\* otherwise
JsonOk(response) == response.body.kind \notin {"empty", "nonjson"}

\* whether a parsed document has the dict method .get
IsDict(doc) == doc.kind = "object"

\* dict.get(key, default)
DictGet(doc, key, default) == IF doc[key] = Absent THEN default ELSE doc[key]

\* response.is_success
IsSuccess(response) ==
    response.status_code >= 200 /\ response.status_code <= 299

\* ------------------------------------------------------------- exceptions.py
NoExc == [exc |-> "<none>", message |-> None, status_code |-> 0,
          code |-> None, data |-> None]

Exc(cls, msg, status, errCode, errData) ==
    [exc |-> cls, message |-> msg, status_code |-> status,
     code |-> errCode, data |-> errData]

SubformerError(message, status, code) ==
    Exc("SubformerError", message, status, code, None)

AuthenticationError(message) ==
    Exc("AuthenticationError", message, 401, "UNAUTHORIZED", None)

NotFoundError(message) ==
    Exc("NotFoundError", message, 404, "NOT_FOUND", None)

RateLimitError(message) ==
    Exc("RateLimitError", message, 429, "RATE_LIMIT_EXCEEDED", None)

ValidationError_DropsData(message, data) ==
    Exc("ValidationError", message, 400, "BAD_REQUEST", None)

ValidationError(message, data) ==
    Exc("ValidationError", message, 400, "BAD_REQUEST", data)

\* exceptions that are not part of the taxonomy
OtherError(exc) == Exc(exc, None, 0, None, None)

Taxonomy ==
    {"SubformerError", "AuthenticationError", "NotFoundError",
     "RateLimitError", "ValidationError"}

\* ------------------------------------------------- BaseClient._handle_error
\* The try block (lines 58-61) completes only when the body parses and the
\* document is a dict; `data` is bound as soon as line 59 has returned.
HandleError(response) ==
    LET data == response.body
        dataBound == JsonOk(response)
        tryOk == JsonOk(response) /\ IsDict(data)
        message == IF tryOk THEN DictGet(data, "message", TextOf(response))
                            ELSE TextOf(response)
        code == IF tryOk THEN DictGet(data, "code", None) ELSE None
    IN  CASE response.status_code = 401 -> AuthenticationError(message)
          [] response.status_code = 404 -> NotFoundError(message)
          [] response.status_code = 429 -> RateLimitError(message)
          [] response.status_code = 400 ->
                IF dataBound
                THEN IF IsDict(data)
                     THEN ValidationError(message, DictGet(data, "data", None))
                     ELSE OtherError("AttributeError")
                ELSE ValidationError(message, None)
          [] OTHER -> SubformerError(message, response.status_code, code)

\* ------------------------------------------------------- results of a call
\* What a call hands to its caller: a returned value or a raised exception.
\* t: "None", "json" (a parsed document), "bool", "Job"; v: the boolean or the
\* job's state.
Value(t, body, v) == [t |-> t, body |-> body, v |-> v]

NoValue == Value("<none>", NoBody, None)
NoneValue == Value("None", NoBody, None)

\* parsed: whether the success path called response.json() (line 141)
Return(value, parsed) ==
    [kind |-> "return", exc |-> NoExc, value |-> value, parsed |-> parsed]

Raise(exc, parsed) ==
    [kind |-> "raise", exc |-> exc, value |-> NoValue, parsed |-> parsed]

NoResult == [kind |-> "<none>", exc |-> NoExc, value |-> NoValue, parsed |-> FALSE]

\* ---------------------------------------------------------- Subformer._request
Request_No204Check(response) ==
    IF ~IsSuccess(response)
    THEN Raise(HandleError(response), FALSE)
    ELSE IF JsonOk(response)
         THEN Return(Value("json", response.body, None), TRUE)
         ELSE Raise(OtherError("JSONDecodeError"), TRUE)

Request(response) ==
    IF ~IsSuccess(response)
    THEN Raise(HandleError(response), FALSE)
    ELSE IF response.status_code = 204
         THEN Return(NoneValue, FALSE)
         ELSE IF JsonOk(response)
              THEN Return(Value("json", response.body, None), TRUE)
              ELSE Raise(OtherError("JSONDecodeError"), TRUE)

\* ------------------------------------------------------------------ types.py
\* Job.is_complete
IsComplete_OnlyCompleted(state) == state = "completed"

IsComplete(state) == state \in {"completed", "failed", "cancelled"}

\* Job.is_successful
IsSuccessful_WhenComplete(state) == state \in {"completed", "failed", "cancelled"}

IsSuccessful(state) == state = "completed"

\* the two derived properties of a Job, as a caller reads them
NoProps == [read |-> FALSE, is_complete |-> FALSE, is_successful |-> FALSE]

JobProperties(state) ==
    [read |-> TRUE, is_complete |-> IsComplete(state),
     is_successful |-> IsSuccessful(state)]

\* Job.model_validate(data): data must be a dict whose state is a JobState
\* (the other required fields are taken to be present).
JobModelValidate(r) ==
    IF r.value.t = "json" /\ IsDict(r.value.body)
            /\ r.value.body.state \in JobStates
    THEN Return(Value("Job", r.value.body, r.value.body.state), r.parsed)
    ELSE Raise(OtherError("pydantic.ValidationError"), r.parsed)

\* --------------------------------------------------------------- enum types
\* DubSource members and their values
DubSourceMembers ==
    {"DubSource.YOUTUBE", "DubSource.TIKTOK", "DubSource.INSTAGRAM",
     "DubSource.FACEBOOK", "DubSource.X", "DubSource.URL"}

DubSourceValue(member) ==
    CASE member = "DubSource.YOUTUBE" -> "youtube"
      [] member = "DubSource.TIKTOK" -> "tiktok"
      [] member = "DubSource.INSTAGRAM" -> "instagram"
      [] member = "DubSource.FACEBOOK" -> "facebook"
      [] member = "DubSource.X" -> "x"
      [] member = "DubSource.URL" -> "url"

\* three of the Language members and their values
LanguageMembers == {"Language.ENGLISH", "Language.SPANISH", "Language.FRENCH"}

LanguageValue(member) ==
    CASE member = "Language.ENGLISH" -> "en-US"
      [] member = "Language.SPANISH" -> "es-ES"
      [] member = "Language.FRENCH" -> "fr-FR"

\* ------------------------------------------------------------- HTTP requests
ApiKey == "sk_subformer_key"
BaseUrl == "https://api.subformer.com/v1"

\* BaseClient._get_headers
GetHeaders == [x_api_key |-> ApiKey, content_type |-> "application/json"]

\* json=None, params=None
NoJson == [json |-> None]
NoParams == [params |-> None]

\* the arguments of self._client.request in _request
HttpRequest(method, path, json, params) ==
    [method |-> method, url |-> BaseUrl \o path, headers |-> GetHeaders,
     json |-> json, params |-> params]

NoRequest == [method |-> None, url |-> None, headers |-> GetHeaders,
              json |-> NoJson, params |-> NoParams]

NoArgs == [args |-> None]

\* arguments the model passes
JobIds == {"job_1"}
VoiceIds == {"voice_1"}
Urls == {"https://youtube.com/watch?v=1"}
DubSourceArgs == DubSourceMembers \cup {"youtube", "url", "vimeo"}
LanguageArgs == LanguageMembers \cup {"es-ES", "xx-XX"}
\* disable_watermark: bool = False; Absent: the argument is not passed
FlagArgs == {Absent, "True", "False"}

\* ------------------------------------------------------------ facade methods
\* data["job"] of dub, clone_voice and synthesize_voice: None, a list and a
\* str cannot be indexed by a key, a dict without the key raises KeyError
JobField(r) ==
    IF r.value.t = "json" /\ IsDict(r.value.body)
    THEN IF r.value.body.job = Absent
         THEN Raise(OtherError("KeyError"), r.parsed)
         ELSE Return(Value("json",
                           Body("object", Absent, Absent, Absent, Absent,
                                r.value.body.job), None), r.parsed)
    ELSE Raise(OtherError("TypeError"), r.parsed)

\* dub, lines 172-186: the request
DubRequest_NoNormalize(source, url, language, disable_watermark) ==
    HttpRequest("POST", "/dub",
                [type |-> source, url |-> url, toLanguage |-> language,
                 disableWatermark |-> disable_watermark],
                NoParams)

DubRequest(source, url, language, disable_watermark) ==
    LET src == IF source \in DubSourceMembers THEN DubSourceValue(source)
                                              ELSE source
        lang == IF language \in LanguageMembers THEN LanguageValue(language)
                                                ELSE language
    IN  HttpRequest("POST", "/dub",
                    [type |-> src, url |-> url, toLanguage |-> lang,
                     disableWatermark |-> disable_watermark],
                    NoParams)

\* dub, line 187
DubResult(response) ==
    LET r == Request(response)
    IN  IF r.kind = "raise" THEN r
        ELSE LET j == JobField(r)
             IN  IF j.kind = "raise" THEN j ELSE JobModelValidate(j)

\* PresetVoice and UploadedVoice objects
PresetVoice(preset_voice_id) ==
    [cls |-> "PresetVoice", mode |-> "preset", preset_voice_id |-> preset_voice_id]

UploadedVoice(target_audio_url) ==
    [cls |-> "UploadedVoice", mode |-> "upload",
     target_audio_url |-> target_audio_url]

\* TargetVoice = Union[PresetVoice, UploadedVoice], with the values the model
\* passes
TargetVoices ==
    {PresetVoice(v) : v \in {"morgan", "anna"}}
        \cup {UploadedVoice(u) : u \in {"https://cdn.example/target.mp3"}}

AudioUrls == {"https://cdn.example/source.mp3"}
Texts == {"Hello"}

\* clone_voice, lines 293-305: the request
CloneVoiceRequest_AlwaysUpload(source_audio_url, target_voice) ==
    HttpRequest("POST", "/voice/clone",
                [sourceAudioUrl |-> source_audio_url,
                 targetVoice |-> [mode |-> "upload",
                                  targetAudioUrl |-> source_audio_url]],
                NoParams)

CloneVoiceRequest(source_audio_url, target_voice) ==
    LET voice_data ==
            IF target_voice.cls = "PresetVoice"
            THEN [mode |-> "preset",
                  presetVoiceId |-> target_voice.preset_voice_id]
            ELSE [mode |-> "upload",
                  targetAudioUrl |-> target_voice.target_audio_url]
    IN  HttpRequest("POST", "/voice/clone",
                    [sourceAudioUrl |-> source_audio_url,
                     targetVoice |-> voice_data],
                    NoParams)

\* clone_voice, line 306
CloneVoiceResult(response) ==
    LET r == Request(response)
    IN  IF r.kind = "raise" THEN r
        ELSE LET j == JobField(r)
             IN  IF j.kind = "raise" THEN j ELSE JobModelValidate(j)

\* synthesize_voice, lines 322-334: the request
SynthesizeVoiceRequest(text, target_voice) ==
    LET voice_data ==
            IF target_voice.cls = "PresetVoice"
            THEN [mode |-> "preset",
                  presetVoiceId |-> target_voice.preset_voice_id]
            ELSE [mode |-> "upload",
                  targetAudioUrl |-> target_voice.target_audio_url]
    IN  HttpRequest("POST", "/voice/synthesize",
                    [text |-> text, targetVoice |-> voice_data],
                    NoParams)

\* synthesize_voice, line 335
SynthesizeVoiceResult(response) ==
    LET r == Request(response)
    IN  IF r.kind = "raise" THEN r
        ELSE LET j == JobField(r)
             IN  IF j.kind = "raise" THEN j ELSE JobModelValidate(j)

\* Voice.model_validate(data): data must be a dict whose gender is one of the
\* two literals (the other required fields are taken to be present)
VoiceModelValidate(r) ==
    IF r.value.t = "json" /\ IsDict(r.value.body)
            /\ r.value.body.gender \in {"male", "female"}
    THEN Return(Value("Voice", r.value.body, r.value.body.gender), r.parsed)
    ELSE Raise(OtherError("pydantic.ValidationError"), r.parsed)

\* name: Optional[str] = None, gender: Optional[str] = None
NameArgs == {None, "", "Narrator"}
GenderArgs == {None, "female"}

\* update_voice, lines 406-412: the request
UpdateVoiceRequest_IfTruthy(voice_id, name, gender) ==
    LET sendName == name # None /\ name # ""
        sendGender == gender # None /\ gender # ""
        payload ==
            CASE sendName /\ sendGender ->
                    [voiceId |-> voice_id, name |-> name, gender |-> gender]
              [] sendName /\ ~sendGender -> [voiceId |-> voice_id, name |-> name]
              [] ~sendName /\ sendGender ->
                    [voiceId |-> voice_id, gender |-> gender]
              [] OTHER -> [voiceId |-> voice_id]
    IN  HttpRequest("PUT", "/voices/" \o voice_id, payload, NoParams)

UpdateVoiceRequest(voice_id, name, gender) ==
    LET sendName == name # None
        sendGender == gender # None
        payload ==
            CASE sendName /\ sendGender ->
                    [voiceId |-> voice_id, name |-> name, gender |-> gender]
              [] sendName /\ ~sendGender -> [voiceId |-> voice_id, name |-> name]
              [] ~sendName /\ sendGender ->
                    [voiceId |-> voice_id, gender |-> gender]
              [] OTHER -> [voiceId |-> voice_id]
    IN  HttpRequest("PUT", "/voices/" \o voice_id, payload, NoParams)

\* update_voice, line 413
UpdateVoiceResult(response) ==
    LET r == Request(response)
    IN  IF r.kind = "raise" THEN r ELSE VoiceModelValidate(r)

\* the requests of get_languages, get_job, delete_jobs and delete_voice
GetLanguagesRequest == HttpRequest("GET", "/metadata/dub/languages", NoJson, NoParams)

GetJobRequest(job_id) == HttpRequest("GET", "/jobs/" \o job_id, NoJson, NoParams)

DeleteJobsRequest(job_ids) ==
    HttpRequest("DELETE", "/jobs", [jobIds |-> job_ids], NoParams)

DeleteVoiceRequest(voice_id) ==
    HttpRequest("DELETE", "/voices/" \o voice_id, [voiceId |-> voice_id], NoParams)

\* get_languages: the parsed body is returned as it is
GetLanguagesResult(response) == Request(response)

\* get_job
GetJobResult(response) ==
    LET r == Request(response)
    IN  IF r.kind = "raise" THEN r ELSE JobModelValidate(r)

\* data.get("success", False) of delete_jobs and delete_voice; None, a list
\* and a str have no .get
SuccessFlag(r) ==
    IF r.value.t = "json" /\ IsDict(r.value.body)
    THEN Return(Value("bool", NoBody, DictGet(r.value.body, "success", "False")),
                r.parsed)
    ELSE Raise(OtherError("AttributeError"), r.parsed)

\* delete_jobs
DeleteJobsResult(response) ==
    LET r == Request(response)
    IN  IF r.kind = "raise" THEN r ELSE SuccessFlag(r)

\* delete_voice
DeleteVoiceResult(response) ==
    LET r == Request(response)
    IN  IF r.kind = "raise" THEN r ELSE SuccessFlag(r)

\* ------------------------------------------------------ Subformer.wait_for_job
\* `if timeout`: None and 0 are falsy
Truthy_Always(timeout) == TRUE

Truthy(timeout) == timeout # NoTimeout /\ timeout # 0

\* One iteration of the loop, lines 268-275, given the response to the poll
\* and time.time() - start_time at the timeout check.
WaitIteration_RetriesOnError(response, elapsedNow, timeoutArg) ==
    LET job == GetJobResult(response)
    IN  IF job.kind = "return" /\ IsComplete(job.value.v)
        THEN [next |-> "return", result |-> job, checks |-> <<"is_complete">>]
        ELSE IF Truthy(timeoutArg) /\ elapsedNow > timeoutArg
             THEN [next |-> "raise",
                   result |-> Raise(OtherError("TimeoutError"), job.parsed),
                   checks |-> <<"is_complete", "timeout">>]
             ELSE [next |-> "sleep", result |-> NoResult,
                   checks |-> <<"is_complete", "timeout">>]

\* checks: the tests of lines 269 and 272 the iteration came to, in order
WaitIteration(response, elapsedNow, timeoutArg) ==
    LET job == GetJobResult(response)
    IN  IF job.kind = "raise"
        THEN [next |-> "raise", result |-> job, checks |-> << >>]
        ELSE IF IsComplete(job.value.v)
             THEN [next |-> "return", result |-> job,
                   checks |-> <<"is_complete">>]
             ELSE IF Truthy(timeoutArg) /\ elapsedNow > timeoutArg
                  THEN [next |-> "raise",
                        result |-> Raise(OtherError("TimeoutError"), job.parsed),
                        checks |-> <<"is_complete", "timeout">>]
                  ELSE [next |-> "sleep", result |-> NoResult,
                        checks |-> <<"is_complete", "timeout">>]

\* poll_interval: float = 2.0
DefaultPollInterval == 2

\* the argument is not passed
OmittedArg == 0 - 2

\* time.sleep(poll_interval) with a delay that grows with the polls made
SleepTime_Backoff(interval, polls) == interval * polls

\* time.sleep(poll_interval), line 275: how long the sleep after the given
\* number of polls lasts
SleepTime(interval, polls) == interval

\* what a call does, in order: HTTP exchanges, the checks of wait_for_job and
\* its sleeps with their length
Event(e, d) == [e |-> e, d |-> d]

CheckEvents(checks) == [i \in 1..Len(checks) |-> Event(checks[i], 0)]

\* ============================================================ AsyncSubformer
\* The asynchronous facade, lines 516-810, translated method by method. It
\* shares _handle_error and _get_headers (BaseClient) and the types with the
\* synchronous one.

\* the arguments of self._client.request in AsyncSubformer._request
AsyncHttpRequest(method, path, json, params) ==
    [method |-> method, url |-> BaseUrl \o path, headers |-> GetHeaders,
     json |-> json, params |-> params]

\* AsyncSubformer._request, lines 573-579
AsyncRequest(response) ==
    IF ~IsSuccess(response)
    THEN Raise(HandleError(response), FALSE)
    ELSE IF response.status_code = 204
         THEN Return(NoneValue, FALSE)
         ELSE IF JsonOk(response)
              THEN Return(Value("json", response.body, None), TRUE)
              ELSE Raise(OtherError("JSONDecodeError"), TRUE)

\* AsyncSubformer.dub
AsyncDubRequest(source, url, language, disable_watermark) ==
    LET src == IF source \in DubSourceMembers THEN DubSourceValue(source)
                                              ELSE source
        lang == IF language \in LanguageMembers THEN LanguageValue(language)
                                                ELSE language
    IN  AsyncHttpRequest("POST", "/dub",
                         [type |-> src, url |-> url, toLanguage |-> lang,
                          disableWatermark |-> disable_watermark],
                         NoParams)

AsyncDubResult(response) ==
    LET r == AsyncRequest(response)
    IN  IF r.kind = "raise" THEN r
        ELSE LET j == JobField(r)
             IN  IF j.kind = "raise" THEN j ELSE JobModelValidate(j)

\* AsyncSubformer.get_languages
AsyncGetLanguagesRequest ==
    AsyncHttpRequest("GET", "/metadata/dub/languages", NoJson, NoParams)

AsyncGetLanguagesResult(response) == AsyncRequest(response)

\* AsyncSubformer.get_job
AsyncGetJobRequest(job_id) ==
    AsyncHttpRequest("GET", "/jobs/" \o job_id, NoJson, NoParams)

AsyncGetJobResult(response) ==
    LET r == AsyncRequest(response)
    IN  IF r.kind = "raise" THEN r ELSE JobModelValidate(r)

\* AsyncSubformer.delete_jobs
AsyncDeleteJobsRequest(job_ids) ==
    AsyncHttpRequest("DELETE", "/jobs", [jobIds |-> job_ids], NoParams)

AsyncDeleteJobsResult(response) ==
    LET r == AsyncRequest(response)
    IN  IF r.kind = "raise" THEN r ELSE SuccessFlag(r)

\* AsyncSubformer.clone_voice
AsyncCloneVoiceRequest(source_audio_url, target_voice) ==
    LET voice_data ==
            IF target_voice.cls = "PresetVoice"
            THEN [mode |-> "preset",
                  presetVoiceId |-> target_voice.preset_voice_id]
            ELSE [mode |-> "upload",
                  targetAudioUrl |-> target_voice.target_audio_url]
    IN  AsyncHttpRequest("POST", "/voice/clone",
                         [sourceAudioUrl |-> source_audio_url,
                          targetVoice |-> voice_data],
                         NoParams)

AsyncCloneVoiceResult(response) ==
    LET r == AsyncRequest(response)
    IN  IF r.kind = "raise" THEN r
        ELSE LET j == JobField(r)
             IN  IF j.kind = "raise" THEN j ELSE JobModelValidate(j)

\* AsyncSubformer.synthesize_voice
AsyncSynthesizeVoiceRequest(text, target_voice) ==
    LET voice_data ==
            IF target_voice.cls = "PresetVoice"
            THEN [mode |-> "preset",
                  presetVoiceId |-> target_voice.preset_voice_id]
            ELSE [mode |-> "upload",
                  targetAudioUrl |-> target_voice.target_audio_url]
    IN  AsyncHttpRequest("POST", "/voice/synthesize",
                         [text |-> text, targetVoice |-> voice_data],
                         NoParams)

AsyncSynthesizeVoiceResult(response) ==
    LET r == AsyncRequest(response)
    IN  IF r.kind = "raise" THEN r
        ELSE LET j == JobField(r)
             IN  IF j.kind = "raise" THEN j ELSE JobModelValidate(j)

\* AsyncSubformer.update_voice
AsyncUpdateVoiceRequest(voice_id, name, gender) ==
    LET sendName == name # None
        sendGender == gender # None
        payload ==
            CASE sendName /\ sendGender ->
                    [voiceId |-> voice_id, name |-> name, gender |-> gender]
              [] sendName /\ ~sendGender -> [voiceId |-> voice_id, name |-> name]
              [] ~sendName /\ sendGender ->
                    [voiceId |-> voice_id, gender |-> gender]
              [] OTHER -> [voiceId |-> voice_id]
    IN  AsyncHttpRequest("PUT", "/voices/" \o voice_id, payload, NoParams)

AsyncUpdateVoiceResult(response) ==
    LET r == AsyncRequest(response)
    IN  IF r.kind = "raise" THEN r ELSE VoiceModelValidate(r)

\* AsyncSubformer.delete_voice
AsyncDeleteVoiceRequest(voice_id) ==
    AsyncHttpRequest("DELETE", "/voices/" \o voice_id, [voiceId |-> voice_id],
                     NoParams)

AsyncDeleteVoiceResult(response) ==
    LET r == AsyncRequest(response)
    IN  IF r.kind = "raise" THEN r ELSE SuccessFlag(r)

\* AsyncSubformer.wait_for_job, lines 650-657: one iteration of the loop
AsyncWaitIteration_TimeoutFirst(response, elapsedNow, timeoutArg) ==
    LET job == AsyncGetJobResult(response)
    IN  IF job.kind = "raise"
        THEN [next |-> "raise", result |-> job, checks |-> << >>]
        ELSE IF Truthy(timeoutArg) /\ elapsedNow > timeoutArg
             THEN [next |-> "raise",
                   result |-> Raise(OtherError("TimeoutError"), job.parsed),
                   checks |-> <<"timeout">>]
             ELSE IF IsComplete(job.value.v)
                  THEN [next |-> "return", result |-> job,
                        checks |-> <<"timeout", "is_complete">>]
                  ELSE [next |-> "sleep", result |-> NoResult,
                        checks |-> <<"timeout", "is_complete">>]

AsyncWaitIteration(response, elapsedNow, timeoutArg) ==
    LET job == AsyncGetJobResult(response)
    IN  IF job.kind = "raise"
        THEN [next |-> "raise", result |-> job, checks |-> << >>]
        ELSE IF IsComplete(job.value.v)
             THEN [next |-> "return", result |-> job,
                   checks |-> <<"is_complete">>]
             ELSE IF Truthy(timeoutArg) /\ elapsedNow > timeoutArg
                  THEN [next |-> "raise",
                        result |-> Raise(OtherError("TimeoutError"), job.parsed),
                        checks |-> <<"is_complete", "timeout">>]
                  ELSE [next |-> "sleep", result |-> NoResult,
                        checks |-> <<"is_complete", "timeout">>]

\* await asyncio.sleep(poll_interval), line 657
AsyncSleepTime(interval, polls) == interval

\* the state of an AsyncSubformer that is given the same calls and the same
\* responses as the Subformer
AsyncState(p, req, n, sl, el, res, ev, cl) ==
    [pc |-> p, request |-> req, requests |-> n, sleeps |-> sl, elapsed |-> el,
     result |-> res, events |-> ev, closeCalls |-> cl]

\* ===================================================================== state
VARIABLES
    scope,          \* "constructed", "entered" (inside with), "exited"
    exitArgs,       \* how __exit__ was reached: "<none>", "normal", "exception"
    closeCalls,     \* invocations of self._client.close()
    pc,             \* "idle"; inside wait_for_job: "poll" or "sleep"; "done":
                    \* the call has returned or raised
    op,             \* the facade method called last
    args,           \* the arguments it was called with
    request,        \* the call's last HTTP request
    poll_interval,  \* wait_for_job's arguments
    timeout,
    elapsed,        \* time.time() - start_time of the running wait_for_job
    requests,       \* HTTP exchanges made by the call
    sleeps,         \* time.sleep calls made by the call
    response,       \* the response to the call's last exchange
    result,         \* what the call returned or raised
    events,         \* what the call has done so far, in order
    jobProps,       \* is_complete and is_successful of the returned Job, once
                    \* the caller has read them
    async           \* the AsyncSubformer run side by side with the Subformer

vars == <<scope, exitArgs, closeCalls, pc, op, args, request, poll_interval, timeout, elapsed,
          requests, sleeps, response, result, events, jobProps, async>>

scopeVars == <<scope, exitArgs, closeCalls>>
waitVars == <<poll_interval, timeout, elapsed, sleeps>>
callVars == <<pc, op, args, request, poll_interval, timeout, elapsed, requests, sleeps,
              response, result, events, jobProps>>

\* Subformer.__init__: the pool exists, nothing has been called
Init ==
    /\ scope = "constructed"
    /\ exitArgs = "<none>"
    /\ closeCalls = 0
    /\ pc = "idle"
    /\ op = "<none>"
    /\ args = NoArgs
    /\ request = NoRequest
    /\ poll_interval = 0
    /\ timeout = NoTimeout
    /\ elapsed = 0
    /\ requests = 0
    /\ sleeps = 0
    /\ response = NoResponse
    /\ result = NoResult
    /\ events = << >>
    /\ jobProps = NoProps
    /\ async = AsyncState("idle", NoRequest, 0, 0, 0, NoResult, << >>, 0)

\* the caller is inside the with block, no call is running and the client
\* has not been closed
CanCall == scope = "entered" /\ pc = "idle" /\ closeCalls = 0

\* a facade method that makes one _request and post-processes the result
SimpleCall(name, a, req, res, resp) ==
    /\ CanCall
    /\ pc' = "done"
    /\ op' = name
    /\ args' = a
    /\ request' = req
    /\ requests' = 1
    /\ response' = resp
    /\ result' = res
    /\ events' = <<Event("request", 0)>>
    /\ UNCHANGED <<scopeVars, waitVars, jobProps>>

\* the same call on the asynchronous facade: one awaited _request
AsyncSimpleCall(req, res) ==
    async' = AsyncState("done", req, 1, async.sleeps, async.elapsed, res,
                        <<Event("request", 0)>>, async.closeCalls)

GetLanguages == CanCall /\ \E resp \in Responses :
    /\ SimpleCall("get_languages", NoArgs, GetLanguagesRequest,
               GetLanguagesResult(resp), resp)
    /\ AsyncSimpleCall(AsyncGetLanguagesRequest, AsyncGetLanguagesResult(resp))

GetJob == CanCall /\ \E job_id \in JobIds, resp \in Responses :
    /\ SimpleCall("get_job", [job_id |-> job_id], GetJobRequest(job_id),
               GetJobResult(resp), resp)
    /\ AsyncSimpleCall(AsyncGetJobRequest(job_id), AsyncGetJobResult(resp))

DeleteJobs == CanCall /\ \E job_ids \in {<<j>> : j \in JobIds}, resp \in Responses :
    /\ SimpleCall("delete_jobs", [job_ids |-> job_ids], DeleteJobsRequest(job_ids),
               DeleteJobsResult(resp), resp)
    /\ AsyncSimpleCall(AsyncDeleteJobsRequest(job_ids), AsyncDeleteJobsResult(resp))

DeleteVoice == CanCall /\ \E voice_id \in VoiceIds, resp \in Responses :
    /\ SimpleCall("delete_voice", [voice_id |-> voice_id],
               DeleteVoiceRequest(voice_id), DeleteVoiceResult(resp), resp)
    /\ AsyncSimpleCall(AsyncDeleteVoiceRequest(voice_id),
                       AsyncDeleteVoiceResult(resp))

\* dub; disable_watermark defaults to False
Dub == CanCall /\ \E source \in DubSourceArgs, url \in Urls,
                     language \in LanguageArgs, flag \in FlagArgs,
                     resp \in Responses :
    /\ SimpleCall("dub",
               [source |-> source, url |-> url, language |-> language,
                disable_watermark |-> flag],
               DubRequest(source, url, language,
                          IF flag = Absent THEN "False" ELSE flag),
               DubResult(resp), resp)
    /\ AsyncSimpleCall(AsyncDubRequest(source, url, language,
                                       IF flag = Absent THEN "False" ELSE flag),
                       AsyncDubResult(resp))

\* clone_voice
CloneVoice == CanCall /\ \E source_audio_url \in AudioUrls,
                            target_voice \in TargetVoices, resp \in Responses :
    /\ SimpleCall("clone_voice",
               [source_audio_url |-> source_audio_url,
                target_voice |-> target_voice],
               CloneVoiceRequest(source_audio_url, target_voice),
               CloneVoiceResult(resp), resp)
    /\ AsyncSimpleCall(AsyncCloneVoiceRequest(source_audio_url, target_voice),
                       AsyncCloneVoiceResult(resp))

\* synthesize_voice
SynthesizeVoice == CanCall /\ \E text \in Texts, target_voice \in TargetVoices,
                                 resp \in Responses :
    /\ SimpleCall("synthesize_voice",
               [text |-> text, target_voice |-> target_voice],
               SynthesizeVoiceRequest(text, target_voice),
               SynthesizeVoiceResult(resp), resp)
    /\ AsyncSimpleCall(AsyncSynthesizeVoiceRequest(text, target_voice),
                       AsyncSynthesizeVoiceResult(resp))

\* update_voice
UpdateVoice == CanCall /\ \E voice_id \in VoiceIds, name \in NameArgs,
                             gender \in GenderArgs, resp \in Responses :
    /\ SimpleCall("update_voice",
               [voice_id |-> voice_id, name |-> name, gender |-> gender],
               UpdateVoiceRequest(voice_id, name, gender),
               UpdateVoiceResult(resp), resp)
    /\ AsyncSimpleCall(AsyncUpdateVoiceRequest(voice_id, name, gender),
                       AsyncUpdateVoiceResult(resp))

\* wait_for_job, line 265: start_time = time.time()
WaitForJob == CanCall /\ \E job_id \in JobIds,
                            pi \in PollIntervals \cup {OmittedArg},
                            to \in Timeouts :
    /\ op' = "wait_for_job"
    /\ args' = [job_id |-> job_id, poll_interval |-> pi, timeout |-> to]
    /\ request' = NoRequest
    /\ pc' = "poll"
    /\ poll_interval' = IF pi = OmittedArg THEN DefaultPollInterval ELSE pi
    /\ timeout' = to
    /\ elapsed' = 0
    /\ requests' = 0
    /\ sleeps' = 0
    /\ response' = NoResponse
    /\ result' = NoResult
    /\ events' = << >>
    /\ async' = AsyncState("poll", NoRequest, 0, 0, 0, NoResult, << >>,
                           async.closeCalls)
    /\ UNCHANGED <<scopeVars, jobProps>>

\* wait_for_job, lines 268-273: one poll, taking dur time units, and the
\* checks that follow it
WaitPoll == pc = "poll" /\ requests < MaxPolls /\ \E resp \in Responses,
                                                      dur \in 0..MaxDur :
    /\ LET it == WaitIteration(resp, elapsed + dur, timeout)
       IN  /\ pc' = IF it.next = "sleep" THEN "sleep" ELSE "done"
           /\ result' = it.result
           /\ events' = events \o <<Event("request", 0)>> \o CheckEvents(it.checks)
    /\ requests' = requests + 1
    /\ elapsed' = elapsed + dur
    /\ response' = resp
    /\ request' = GetJobRequest(args.job_id)
    /\ async' =
         IF async.pc # "poll" THEN async
         ELSE LET it == AsyncWaitIteration(resp, async.elapsed + dur, timeout)
              IN  AsyncState(IF it.next = "sleep" THEN "sleep" ELSE "done",
                             AsyncGetJobRequest(args.job_id),
                             async.requests + 1, async.sleeps,
                             async.elapsed + dur, it.result,
                             async.events \o <<Event("request", 0)>>
                                 \o CheckEvents(it.checks),
                             async.closeCalls)
    /\ UNCHANGED <<op, args, poll_interval, timeout, sleeps, scopeVars, jobProps>>

\* wait_for_job, line 275: time.sleep(poll_interval)
WaitSleep ==
    /\ pc = "sleep"
    /\ pc' = "poll"
    /\ sleeps' = sleeps + 1
    /\ elapsed' = elapsed + SleepTime(poll_interval, requests)
    /\ events' = events \o <<Event("sleep", SleepTime(poll_interval, requests))>>
    /\ async' =
         IF async.pc # "sleep" THEN async
         ELSE LET d == AsyncSleepTime(poll_interval, async.requests)
              IN  AsyncState("poll", async.request, async.requests,
                             async.sleeps + 1, async.elapsed + d, async.result,
                             async.events \o <<Event("sleep", d)>>,
                             async.closeCalls)
    /\ UNCHANGED <<op, args, request, poll_interval, timeout, requests,
                   response, result, scopeVars, jobProps>>

\* the caller has the call's result; the call's frame is gone
Finish ==
    /\ pc = "done"
    /\ pc' = "idle"
    /\ op' = "<none>"
    /\ args' = NoArgs
    /\ request' = NoRequest
    /\ poll_interval' = 0
    /\ timeout' = NoTimeout
    /\ elapsed' = 0
    /\ requests' = 0
    /\ sleeps' = 0
    /\ response' = NoResponse
    /\ result' = NoResult
    /\ events' = << >>
    /\ jobProps' = NoProps
    /\ async' = AsyncState("idle", NoRequest, 0, 0, 0, NoResult, << >>,
                           async.closeCalls)
    /\ UNCHANGED scopeVars

\* the caller reads job.is_complete and job.is_successful of the Job that
\* get_job or wait_for_job returned
ReadJobProperties ==
    /\ pc = "done"
    /\ result.kind = "return"
    /\ result.value.t = "Job"
    /\ ~jobProps.read
    /\ jobProps' = JobProperties(result.value.v)
    /\ UNCHANGED <<scopeVars, pc, op, args, request, poll_interval, timeout,
                   elapsed, requests, sleeps, response, result, events, async>>

\* ----------------------------------------------------- the connection pool
\* __enter__
Enter ==
    /\ scope = "constructed"
    /\ scope' = "entered"
    /\ UNCHANGED <<exitArgs, closeCalls, callVars, async>>

\* close(), called by the code inside the with block
Close ==
    /\ scope = "entered"
    /\ pc = "idle"
    /\ closeCalls < MaxCloseCalls
    /\ closeCalls' = closeCalls + 1
    /\ async' = [async EXCEPT !.closeCalls = @ + 1]
    /\ UNCHANGED <<scope, exitArgs, callVars>>

\* __exit__(*args): reached when the block ends or an exception leaves it
Exit == scope = "entered" /\ \E how \in {"normal", "exception"} :
    /\ scope = "entered"
    /\ pc = "idle"
    /\ closeCalls < MaxCloseCalls
    /\ scope' = "exited"
    /\ exitArgs' = how
    /\ closeCalls' = closeCalls + 1
    /\ async' = [async EXCEPT !.closeCalls = @ + 1]
    /\ UNCHANGED callVars

Next ==
    \/ GetLanguages
    \/ GetJob
    \/ DeleteJobs
    \/ DeleteVoice
    \/ Dub
    \/ CloneVoice
    \/ SynthesizeVoice
    \/ UpdateVoice
    \/ WaitForJob
    \/ WaitPoll
    \/ WaitSleep
    \/ Finish
    \/ ReadJobProperties
    \/ Enter
    \/ Close
    \/ Exit

Spec == Init /\ [][Next]_vars

\* ==================================================================== claims
SimpleOps ==
    {"get_languages", "get_job", "delete_jobs", "delete_voice", "dub",
     "clone_voice", "synthesize_voice", "update_voice"}
DeleteOps == {"delete_jobs", "delete_voice"}

\* the call has had a response to its (last) exchange
Answered == op # "<none>" /\ requests >= 1

\* the response is a failure in the sense of the dispatcher
Failure == Answered /\ (response.status_code < 200 \/ response.status_code > 299)
Success == Answered /\ response.status_code >= 200 /\ response.status_code <= 299

\* the error kind the taxonomy binds to a status
KindOfStatus(status) ==
    CASE status = 401 -> "AuthenticationError"
      [] status = 404 -> "NotFoundError"
      [] status = 429 -> "RateLimitError"
      [] status = 400 -> "ValidationError"
      [] OTHER -> "SubformerError"

\* the machine code of the error envelope, None when there is none
ServerCode ==
    IF response.body.kind = "object" /\ response.body.code # Absent
    THEN response.body.code ELSE None

\* a 2xx response carrying a Job in the given states
JobResponseIn(states) ==
    /\ Success
    /\ response.status_code # 204
    /\ response.body.kind = "object"
    /\ response.body.state \in states

\* C1: every non-2xx response makes the call raise, never return: 401 raises
\* AuthenticationError, 404 NotFoundError, 429 RateLimitError, 400
\* ValidationError, and any other status the generic SubformerError carrying
\* the observed status and the server's code (or none).
C1_StatusDecidesErrorKind ==
    Failure =>
        /\ pc = "done"
        /\ result.kind = "raise"
        /\ result.exc.exc = KindOfStatus(response.status_code)
        /\ result.exc.status_code = response.status_code
        /\ (result.exc.exc = "SubformerError" => result.exc.code = ServerCode)

\* C2: for every non-2xx status and every body that is not a JSON object, the
\* call raises an error of the taxonomy whose message is the raw response text
\* and which carries no server code; no other exception type is raised.
C2_MalformedBodyDegrades ==
    (Failure /\ response.body.kind # "object") =>
        /\ result.kind = "raise"
        /\ result.exc.exc \in Taxonomy
        /\ result.exc.message = TextOf(response)
        /\ (result.exc.exc = "SubformerError" => result.exc.code = None)

\* C3: a 400 response whose body is a JSON object raises a ValidationError
\* whose data is the body's data field, None when the field is missing; the
\* other taxonomy errors never carry data.
C3_DataOnlyOnValidationError ==
    /\ (Failure /\ response.status_code = 400 /\ response.body.kind = "object") =>
            /\ result.exc.exc = "ValidationError"
            /\ result.exc.data =
                 (IF response.body.data = Absent THEN None ELSE response.body.data)
    /\ (result.kind = "raise" /\ result.exc.exc \in Taxonomy \ {"ValidationError"}) =>
            result.exc.data = None

C3_Witness ==
    /\ pc = "done"
    /\ Failure
    /\ response.status_code = 400
    /\ response.body.data = "detail"
    /\ result.exc.exc = "ValidationError"
    /\ result.exc.data = "detail"

\* C4: on a 204 _request returns None and does not parse the body; on any
\* other 2xx status it parses the body and returns the document; a value is
\* returned only for 2xx statuses.
C4_NoContentIsNotParsed ==
    /\ (Success /\ response.status_code = 204) => ~result.parsed
    /\ (pc = "done" /\ op = "get_languages" /\ Success) =>
            IF response.status_code = 204
            THEN result.kind = "return" /\ result.value.t = "None"
            ELSE /\ result.parsed
                 /\ response.body.kind \notin {"empty", "nonjson"} =>
                        /\ result.kind = "return"
                        /\ result.value.t = "json"
                        /\ result.value.body = response.body
    /\ (pc = "done" /\ result.kind = "return") => Success

C4_Witness ==
    /\ pc = "done"
    /\ op = "get_languages"
    /\ response.status_code = 204
    /\ response.body.kind = "array"
    /\ result.kind = "return"
    /\ result.value.t = "None"
    /\ ~result.parsed

\* C5: when the first poll of wait_for_job observes a completed, failed or
\* cancelled job, the call returns that job after one request and no sleep,
\* whatever poll_interval and timeout are.
C5_CompleteOnFirstPoll ==
    (op = "wait_for_job" /\ requests = 1
        /\ JobResponseIn({"completed", "failed", "cancelled"})) =>
            /\ pc = "done"
            /\ result.kind = "return"
            /\ result.value.t = "Job"
            /\ result.value.v = response.body.state
            /\ sleeps = 0

C5_Witness ==
    /\ op = "wait_for_job"
    /\ pc = "done"
    /\ requests = 1
    /\ sleeps = 0
    /\ timeout = 0
    /\ elapsed > 0
    /\ response.body.state = "cancelled"
    /\ result.kind = "return"

\* C6: with a timeout t >= 0 supplied, a poll that returns an incomplete job
\* when more than t has elapsed since the start raises TimeoutError instead of
\* going to sleep, and TimeoutError is raised only after a poll.
C6_TimeoutEndsTheWait ==
    /\ (op = "wait_for_job" /\ timeout # NoTimeout /\ pc = "sleep") =>
            elapsed <= timeout
    /\ (op = "wait_for_job" /\ result.exc.exc = "TimeoutError") => requests >= 1

\* C7: with timeout None wait_for_job never raises TimeoutError; after a poll
\* that returned an incomplete job the call goes on (sleep, then the next
\* poll), and it returns only when a poll observed a complete job.
C7_State ==
    (op = "wait_for_job" /\ timeout = NoTimeout) =>
        /\ result.exc.exc # "TimeoutError"
        /\ JobResponseIn({"queued", "active"}) => pc \in {"sleep", "poll"}
        /\ (pc = "done" /\ result.kind = "return") =>
                JobResponseIn({"completed", "failed", "cancelled"})

C7_Step ==
    (op = "wait_for_job" /\ timeout = NoTimeout /\ pc = "sleep") =>
        (pc' = "poll" /\ requests' = requests /\ result' = NoResult)

C7_NoTimeoutPollsOn == [](C7_State) /\ [][C7_Step]_vars

C7_Witness ==
    /\ op = "wait_for_job"
    /\ timeout = NoTimeout
    /\ requests = MaxPolls
    /\ sleeps = MaxPolls - 1
    /\ elapsed >= MaxPolls
    /\ pc = "sleep"
    /\ response.body.state = "active"

\* C8: no retry and no suppression: a facade call other than wait_for_job
\* makes one exchange and raises the dispatcher's error when the response is
\* not 2xx; in wait_for_job the first failed poll ends the call with that
\* error, with no sleep and no poll after it.
C8_FailureIsRaisedAtOnce ==
    /\ (pc = "done" /\ op \in SimpleOps) =>
            /\ requests = 1
            /\ sleeps = 0
            /\ Failure => result = Raise(HandleError(response), FALSE)
    /\ (op = "wait_for_job" /\ Failure) =>
            /\ pc = "done"
            /\ result = Raise(HandleError(response), FALSE)
            /\ sleeps = requests - 1

C8_Witness ==
    /\ op = "wait_for_job"
    /\ pc = "done"
    /\ requests = 2
    /\ sleeps = 1
    /\ response.status_code = 500
    /\ result.kind = "raise"
    /\ result.exc.exc = "SubformerError"

\* C9: the pool is closed exactly once when the with scope exits, normally
\* or by an exception, whatever was done inside the scope, an explicit
\* close() included.
C9_ClosedExactlyOnce ==
    scope = "exited" => closeCalls = 1

\* C10: delete_jobs and delete_voice return a boolean for every 2xx response
\* of the delete endpoint (a JSON object, or no content with status 204): the
\* body's success field, False when it is missing.
C10_DeleteReturnsBool ==
    (pc = "done" /\ op \in DeleteOps /\ Success
        /\ (response.status_code = 204 \/ response.body.kind = "object")) =>
        /\ result.kind = "return"
        /\ result.value.t = "bool"
        /\ result.value.v =
             (IF response.body.success = Absent THEN "False"
                                                ELSE response.body.success)

\* C11: is_complete is true exactly for completed, failed and cancelled and
\* false for queued and active; is_successful is true exactly for completed,
\* so is_successful implies is_complete.
C11_JobPredicates ==
    jobProps.read =>
        /\ result.value.v \in {"queued", "active", "completed", "failed", "cancelled"}
        /\ jobProps.is_complete =
              (result.value.v \in {"completed", "failed", "cancelled"})
        /\ jobProps.is_successful = (result.value.v = "completed")
        /\ jobProps.is_successful => jobProps.is_complete

C11_Witness ==
    /\ jobProps.read
    /\ op = "get_job"
    /\ result.value.v = "failed"
    /\ jobProps.is_complete
    /\ ~jobProps.is_successful

\* the wire string of a source or language argument: the value of an enum
\* member, the string itself otherwise
WireOf(arg) ==
    CASE arg = "DubSource.YOUTUBE" -> "youtube"
      [] arg = "DubSource.TIKTOK" -> "tiktok"
      [] arg = "DubSource.INSTAGRAM" -> "instagram"
      [] arg = "DubSource.FACEBOOK" -> "facebook"
      [] arg = "DubSource.X" -> "x"
      [] arg = "DubSource.URL" -> "url"
      [] arg = "Language.ENGLISH" -> "en-US"
      [] arg = "Language.SPANISH" -> "es-ES"
      [] arg = "Language.FRENCH" -> "fr-FR"
      [] OTHER -> arg

\* C12: dub sends one POST /dub whose body is exactly {type, url, toLanguage,
\* disableWatermark}, type and toLanguage being the wire strings of the
\* arguments (an enum member and its raw string give the same body),
\* disableWatermark False unless the flag is passed; the Job returned is the
\* one under the job key of the response.
C12_DubRequestBody ==
    (pc = "done" /\ op = "dub") =>
        /\ requests = 1
        /\ request.method = "POST"
        /\ request.url = "https://api.subformer.com/v1/dub"
        /\ DOMAIN request.json = {"type", "url", "toLanguage", "disableWatermark"}
        /\ request.json.type = WireOf(args.source)
        /\ request.json.url = args.url
        /\ request.json.toLanguage = WireOf(args.language)
        /\ request.json.disableWatermark =
              (IF args.disable_watermark = Absent THEN "False"
                                                  ELSE args.disable_watermark)
        /\ result.kind = "return" =>
              /\ result.value.t = "Job"
              /\ response.body.job # Absent
              /\ result.value.v = response.body.job

C12_Witness ==
    /\ pc = "done"
    /\ op = "dub"
    /\ args.source = "DubSource.YOUTUBE"
    /\ args.language = "Language.SPANISH"
    /\ args.disable_watermark = Absent
    /\ request.json.type = "youtube"
    /\ request.json.toLanguage = "es-ES"
    /\ request.json.disableWatermark = "False"
    /\ result.kind = "return"
    /\ result.value.v = "queued"

\* C13: in clone_voice and synthesize_voice the targetVoice object has
\* exactly two keys: mode "preset" with presetVoiceId for a PresetVoice, mode
\* "upload" with targetAudioUrl for an UploadedVoice; never both keys, and the
\* mode always matches the key.
C13_TargetVoiceShape ==
    (pc = "done" /\ op \in {"clone_voice", "synthesize_voice"}) =>
        /\ "targetVoice" \in DOMAIN request.json
        /\ IF args.target_voice.cls = "PresetVoice"
           THEN /\ DOMAIN request.json.targetVoice = {"mode", "presetVoiceId"}
                /\ request.json.targetVoice.mode = "preset"
                /\ request.json.targetVoice.presetVoiceId =
                      args.target_voice.preset_voice_id
           ELSE /\ DOMAIN request.json.targetVoice = {"mode", "targetAudioUrl"}
                /\ request.json.targetVoice.mode = "upload"
                /\ request.json.targetVoice.targetAudioUrl =
                      args.target_voice.target_audio_url

C13_Witness ==
    /\ pc = "done"
    /\ op = "clone_voice"
    /\ args.target_voice.cls = "PresetVoice"
    /\ request.url = "https://api.subformer.com/v1/voice/clone"
    /\ request.json.targetVoice = [mode |-> "preset", presetVoiceId |-> "anna"]

\* C14: the body of PUT /voices/{id} holds name exactly when name was passed
\* and gender exactly when gender was passed, with the values passed; beside
\* them it holds only voiceId, the voice_id the caller gave.
C14_OnlyProvidedFields ==
    (pc = "done" /\ op = "update_voice") =>
        /\ request.method = "PUT"
        /\ request.url = "https://api.subformer.com/v1/voices/" \o args.voice_id
        /\ DOMAIN request.json =
              {"voiceId"} \cup (IF args.name = "None" THEN {} ELSE {"name"})
                         \cup (IF args.gender = "None" THEN {} ELSE {"gender"})
        /\ request.json.voiceId = args.voice_id
        /\ args.name # "None" => request.json.name = args.name
        /\ args.gender # "None" => request.json.gender = args.gender

C14_Witness ==
    /\ pc = "done"
    /\ op = "update_voice"
    /\ args.name = ""
    /\ args.gender = "None"
    /\ DOMAIN request.json = {"voiceId", "name"}
    /\ result.kind = "return"
    /\ result.value.t = "Voice"

\* the poll_interval in force: the argument, 2 when it is not passed
ConfiguredInterval ==
    IF args.poll_interval = 0 - 2 THEN 2 ELSE args.poll_interval

\* C16: the events of a wait_for_job call are a poll followed by any number
\* of (completion check, timeout check, sleep, poll): one sleep between two
\* polls, every sleep as long as the configured poll_interval (2 by default)
\* however many polls were made, and no sleep after the last poll.
C16_PollSleepAlternation ==
    op = "wait_for_job" =>
        /\ \A i \in 1..Len(events) :
              /\ (events[i].e = "request" /\ i > 1) => events[i - 1].e = "sleep"
              /\ events[i].e = "sleep" =>
                    /\ i >= 4
                    /\ events[i - 1].e = "timeout"
                    /\ events[i - 2].e = "is_complete"
                    /\ events[i - 3].e = "request"
                    /\ events[i].d = ConfiguredInterval
              /\ events[i].e = "is_complete" =>
                    (i > 1 /\ events[i - 1].e = "request")
              /\ events[i].e = "timeout" =>
                    (i > 1 /\ events[i - 1].e = "is_complete")
        /\ Len(events) >= 1 => events[1].e = "request"
        /\ pc = "poll" => (events = << >> \/ events[Len(events)].e = "sleep")
        /\ pc \in {"sleep", "done"} => events[Len(events)].e # "sleep"
        /\ pc = "sleep" => events[Len(events)].e = "timeout"

C16_Witness ==
    /\ op = "wait_for_job"
    /\ pc = "done"
    /\ args.poll_interval = 0 - 2
    /\ requests = MaxPolls
    /\ sleeps = MaxPolls - 1
    /\ elapsed >= 2 * (MaxPolls - 1)
    /\ events[Len(events)].e = "is_complete"
    /\ events[Len(events) - 2].e = "sleep"
    /\ events[Len(events) - 2].d = 2

\* C17: a poll that observes a complete job returns it even when more than
\* the timeout has elapsed; TimeoutError is raised only right after a poll
\* that returned an incomplete job; so a call with a timeout never runs past
\* it by more than one poll_interval and one request.
C17_CompletionBeforeTimeout ==
    (op = "wait_for_job" /\ timeout # NoTimeout) =>
        /\ JobResponseIn({"completed", "failed", "cancelled"}) =>
              (pc = "done" /\ result.kind = "return")
        /\ result.exc.exc = "TimeoutError" => JobResponseIn({"queued", "active"})
        /\ elapsed <= timeout + poll_interval + MaxDur

====
